---- MODULE Spec2Model ----
(***************************************************************************)
(* CV Genie worker (src/index.ts): the POST /api/generate request handler  *)
(* and its pipeline  extractData -> merge -> curateData -> contact overlay *)
(* -> generateCvHtml -> generatePdf, for one request.                      *)
(*                                                                         *)
(* JavaScript values are records [k, s, e, m]: k the kind, s the payload   *)
(* of a string / number / boolean, e the elements of an array, m the       *)
(* members (own enumerable properties, in insertion order) of an object or *)
(* array.  Texts are sequences of lexemes: one significant character, or a *)
(* run of letters / digits that holds none.                                *)
(***************************************************************************)
EXTENDS Integers, Sequences, FiniteSets, TLC

VARIABLES
    req,            \* the request: method, path, headers, body
    pc,             \* position of the handler
    payload,        \* const payload = await request.json()
    extractText,    \* text the collaborator returned to extractData
    extractedRaw,   \* what extractData returned, before the merge lines
    extractedJson,  \* the handler's extractedJson (mutated by the merge)
    curateText,     \* text the collaborator returned to curateData
    curatedRaw,     \* what curateData returned, before the overlay lines
    curatedJson,    \* the handler's curatedJson (mutated by the overlay)
    html,           \* const html = generateCvHtml(data, photoDataUrl)
    browser,        \* generatePdf's browser: "null", "open" or "closed"
    pdfBuffer,      \* generatePdf's pending return value
    error,          \* the exception in flight, caught at line 98
    failedAt,       \* the step that threw it
    response,       \* the Response the handler returned
    genCalls,       \* calls of model.generateContent
    launchCalls,    \* calls of puppeteer.launch
    closeCalls,     \* calls of browser.close
    trace,          \* the steps taken, in order
    unwrapped,      \* SpecStage: the JSON text the collaborator's text holds
    fence           \* SpecStage: the fence and padding put around it

vars == << req, pc, payload, extractText, extractedRaw, extractedJson,
           curateText, curatedRaw, curatedJson, html, browser, pdfBuffer,
           error, failedAt, response, genCalls, launchCalls, closeCalls, trace,
           unwrapped, fence >>

----------------------------------------------------------------------------
(* Bounds of the model *)

\* leading / trailing / inner whitespace lexemes put around a fenced text
MaxPad == 1
\* entries of a sequence-valued section drawn for document assembly
MaxItems == 1

----------------------------------------------------------------------------
(* JavaScript values *)

JS(kind, str, elems, members) == [k |-> kind, s |-> str, e |-> elems, m |-> members]

Undefined == JS("undefined", "", <<>>, <<>>)
Null      == JS("null", "", <<>>, <<>>)
Str(x)    == JS("string", x, <<>>, <<>>)
Num(x)    == JS("number", x, <<>>, <<>>)
Bool(x)   == JS("boolean", x, <<>>, <<>>)
Arr(es)   == JS("array", "", es, <<>>)
Obj(ms)   == JS("object", "", <<>>, ms)

Nullish(v) == v.k \in {"undefined", "null"}
IsRef(v)   == v.k \in {"object", "array"}

\* ToBoolean: what  if (v)  /  v ? a : b  /  !v  test
Truthy(v) ==
    CASE v.k \in {"undefined", "null"} -> FALSE
      [] v.k = "string"  -> v.s # ""
      [] v.k = "number"  -> v.s # "0"
      [] v.k = "boolean" -> v.s = "true"
      [] OTHER -> TRUE

KeyIndex(ms, key) ==
    LET hits == { i \in 1..Len(ms) : ms[i][1] = key }
    IN  IF hits = {} THEN 0 ELSE CHOOSE i \in hits : TRUE

\* v.key for a v that is not null / undefined (reading those throws)
GetProp(v, key) ==
    LET i == KeyIndex(v.m, key)
    IN  IF i = 0 THEN Undefined ELSE v.m[i][2]

PutMember(ms, key, val) ==
    LET i == KeyIndex(ms, key)
    IN  IF i = 0 THEN Append(ms, <<key, val>>)
        ELSE [ms EXCEPT ![i] = <<key, val>>]

\* v.key = val  on an object or array; on anything else strict-mode code throws
SetProp(v, key, val) == [v EXCEPT !.m = PutMember(v.m, key, val)]

----------------------------------------------------------------------------
(* Texts and the string operations of lines 136 / 172 *)

\* the grave accent U+0060, one lexeme (a string literal here cannot hold it)
BQ == "<bq>"
QUOTE == "\""
BACKSLASH == "\\"
WhiteSpace == {" ", "\n"}
NumberLexemes == {"0", "1", "42"}

\* the patterns /```json/g and /```/g
FenceJson == <<BQ, BQ, BQ, "json">>
Fence == <<BQ, BQ, BQ>>

\* t from index `from` on without the matches of the pattern, whose n lexemes
\* start at the candidates: the leftmost match first, the scan resuming after it
RECURSIVE ReplaceFrom(_, _, _, _)
ReplaceFrom(t, candidates, from, n) ==
    LET ahead == { c \in candidates : c >= from }
    IN  IF ahead = {} THEN SubSeq(t, from, Len(t))
        ELSE LET c == CHOOSE x \in ahead : \A y \in ahead : x <= y
             IN  SubSeq(t, from, c - 1) \o ReplaceFrom(t, candidates, c + n, n)

\* String.prototype.replace(/pat/g, '')
ReplaceAll(t, pat) ==
    LET n == Len(pat)
    IN  ReplaceFrom(t, { i \in 1..(Len(t) - n + 1) : SubSeq(t, i, i + n - 1) = pat }, 1, n)

RECURSIVE TrimStart(_)
TrimStart(t) ==
    IF t # <<>> /\ Head(t) \in WhiteSpace THEN TrimStart(Tail(t)) ELSE t

RECURSIVE TrimEnd(_)
TrimEnd(t) ==
    IF t # <<>> /\ t[Len(t)] \in WhiteSpace
    THEN TrimEnd(SubSeq(t, 1, Len(t) - 1)) ELSE t

\* String.prototype.trim
Trim(t) == TrimEnd(TrimStart(t))

\* response.text().replace(/```json/g, '').replace(/```/g, '').trim()
StripFences(t) == Trim(ReplaceAll(ReplaceAll(t, FenceJson), Fence))

----------------------------------------------------------------------------
(* JSON.parse *)

ParseFail == [ok |-> FALSE, val |-> Undefined, next |-> 0]
ParseOk(v, n) == [ok |-> TRUE, val |-> v, next |-> n]

RECURSIVE SkipWs(_, _)
SkipWs(t, i) ==
    IF i <= Len(t) /\ t[i] \in WhiteSpace THEN SkipWs(t, i + 1) ELSE i

\* the characters of a string literal, from the one after its opening quote
RECURSIVE StrBody(_, _, _)
StrBody(t, i, acc) ==
    IF i > Len(t) THEN ParseFail
    ELSE IF t[i] = QUOTE THEN ParseOk(Str(acc), i + 1)
    ELSE IF t[i] = BACKSLASH
         THEN IF i + 1 <= Len(t) /\ t[i + 1] \in {QUOTE, BACKSLASH}
              THEN StrBody(t, i + 2, acc \o t[i + 1])
              ELSE ParseFail
    ELSE IF t[i] = "\n" THEN ParseFail
    ELSE StrBody(t, i + 1, acc \o t[i])

RECURSIVE ParseValue(_, _)
RECURSIVE ParseMembers(_, _, _)
RECURSIVE ParseElements(_, _, _)

ParseValue(t, i0) ==
    LET i == SkipWs(t, i0)
    IN  IF i > Len(t) THEN ParseFail
        ELSE CASE t[i] = "{"     -> ParseMembers(t, SkipWs(t, i + 1), <<>>)
               [] t[i] = "["     -> ParseElements(t, SkipWs(t, i + 1), <<>>)
               [] t[i] = QUOTE   -> StrBody(t, i + 1, "")
               [] t[i] = "null"  -> ParseOk(Null, i + 1)
               [] t[i] = "true"  -> ParseOk(Bool("true"), i + 1)
               [] t[i] = "false" -> ParseOk(Bool("false"), i + 1)
               [] t[i] \in NumberLexemes -> ParseOk(Num(t[i]), i + 1)
               [] OTHER -> ParseFail

\* members of an object, i at the first lexeme after "{" or after ","
ParseMembers(t, i, acc) ==
    IF i > Len(t) THEN ParseFail
    ELSE IF t[i] = "}" THEN (IF acc = <<>> THEN ParseOk(Obj(acc), i + 1) ELSE ParseFail)
    ELSE IF t[i] # QUOTE THEN ParseFail
    ELSE LET key == StrBody(t, i + 1, "")
             c   == SkipWs(t, key.next)
         IN  IF ~key.ok THEN ParseFail
             ELSE IF c > Len(t) \/ t[c] # ":" THEN ParseFail
             ELSE LET v    == ParseValue(t, c + 1)
                      d    == SkipWs(t, v.next)
                      acc2 == PutMember(acc, key.val.s, v.val)
                  IN  IF ~v.ok THEN ParseFail
                      ELSE IF d > Len(t) THEN ParseFail
                      ELSE IF t[d] = "}" THEN ParseOk(Obj(acc2), d + 1)
                      ELSE IF t[d] = "," THEN ParseMembers(t, SkipWs(t, d + 1), acc2)
                      ELSE ParseFail

\* elements of an array, i at the first lexeme after "[" or after ","
ParseElements(t, i, acc) ==
    IF i > Len(t) THEN ParseFail
    ELSE IF t[i] = "]" THEN (IF acc = <<>> THEN ParseOk(Arr(acc), i + 1) ELSE ParseFail)
    ELSE LET v == ParseValue(t, i)
             d == SkipWs(t, v.next)
         IN  IF ~v.ok THEN ParseFail
             ELSE IF d > Len(t) THEN ParseFail
             ELSE IF t[d] = "]" THEN ParseOk(Arr(Append(acc, v.val)), d + 1)
             ELSE IF t[d] = "," THEN ParseElements(t, SkipWs(t, d + 1), Append(acc, v.val))
             ELSE ParseFail

\* JSON.parse(text): [ok, val]; ~ok is the SyntaxError it throws
JSONparse(t) ==
    LET r == ParseValue(t, 1)
    IN  IF r.ok /\ SkipWs(t, r.next) > Len(t)
        THEN [ok |-> TRUE, val |-> r.val]
        ELSE [ok |-> FALSE, val |-> Undefined]

----------------------------------------------------------------------------
(* Exceptions and the results of steps that may throw *)

\* a thrown value: an Error with its message, or something that is no Error
Err(msg)  == [isError |-> TRUE, message |-> msg]
NonError  == [isError |-> FALSE, message |-> ""]
NoError   == [isError |-> FALSE, message |-> "<none>"]

Return(v) == [threw |-> FALSE, val |-> v, err |-> NoError]
Throw(e)  == [threw |-> TRUE, val |-> Undefined, err |-> e]

TypeErr == Err("TypeError: Cannot read or set properties")
SyntaxErr == Err("SyntaxError: Unexpected token in JSON")

----------------------------------------------------------------------------
(* The two stages, from the text the collaborator returned *)

\* extractData, lines 135-137
extractData_Lenient(text) ==
    LET r == JSONparse(StripFences(text))
    IN  IF r.ok THEN Return(r.val) ELSE Return(Obj(<<>>))

extractData_KeepFence(text) ==
    LET r == JSONparse(Trim(ReplaceAll(text, FenceJson)))
    IN  IF r.ok THEN Return(r.val) ELSE Throw(SyntaxErr)

extractData(text) ==
    LET r == JSONparse(StripFences(text))
    IN  IF r.ok THEN Return(r.val) ELSE Throw(SyntaxErr)

\* curateData, lines 171-173
curateData(text) ==
    LET r == JSONparse(StripFences(text))
    IN  IF r.ok THEN Return(r.val) ELSE Throw(SyntaxErr)

----------------------------------------------------------------------------
(* Merge step, lines 78-80, and contact overlay, lines 84-88 *)

\* if (from.key) rec.contactInfo.field = from.key;   after the lines before it
AssignOverride(prev, from, key, field) ==
    IF prev.threw THEN prev
    ELSE IF Nullish(from) THEN Throw(TypeErr)
    ELSE IF ~Truthy(GetProp(from, key)) THEN prev
    ELSE IF Nullish(prev.val) THEN Throw(TypeErr)
    ELSE LET ci == GetProp(prev.val, "contactInfo")
         IN  IF ~IsRef(ci) THEN Throw(TypeErr)
             ELSE Return(SetProp(prev.val, "contactInfo",
                                 SetProp(ci, field, GetProp(from, key))))

\* a merge that only fills in what extraction left out
AssignIfMissing(prev, from, key, field) ==
    IF prev.threw THEN prev
    ELSE IF Nullish(from) THEN Throw(TypeErr)
    ELSE IF ~Truthy(GetProp(from, key)) THEN prev
    ELSE IF Nullish(prev.val) THEN Throw(TypeErr)
    ELSE LET ci == GetProp(prev.val, "contactInfo")
         IN  IF ~IsRef(ci) THEN Throw(TypeErr)
             ELSE IF Truthy(GetProp(ci, field)) THEN prev
             ELSE Return(SetProp(prev.val, "contactInfo",
                                 SetProp(ci, field, GetProp(from, key))))

MergeStep_FillOnly(extracted, personalDetails) ==
    AssignIfMissing(
        AssignIfMissing(
            AssignIfMissing(Return(extracted), personalDetails, "email", "email"),
            personalDetails, "phone", "phone"),
        personalDetails, "location", "location")

MergeStep(extracted, personalDetails) ==
    AssignOverride(
        AssignOverride(
            AssignOverride(Return(extracted), personalDetails, "email", "email"),
            personalDetails, "phone", "phone"),
        personalDetails, "location", "location")

ContactOverlay(curated, urls) ==
    IF Nullish(curated) THEN Throw(TypeErr)
    ELSE IF ~Truthy(GetProp(curated, "contactInfo")) THEN Return(curated)
    ELSE AssignOverride(
             AssignOverride(
                 AssignOverride(Return(curated), urls, "linkedinUrl", "linkedin"),
                 urls, "githubUrl", "github"),
             urls, "portfolioUrl", "portfolio")

----------------------------------------------------------------------------
(* Document assembly: generateCvHtml, lines 197-311.  The document is the   *)
(* sequence of its fragments, in template order.                            *)

IndexStr(i) == IF i <= 10 THEN <<"0", "1", "2", "3", "4", "5", "6", "7", "8", "9">>[i]
               ELSE "n"

\* string conversion of ${v} in a template literal
RECURSIVE ToStr(_)
RECURSIVE JoinFrom(_, _, _)
ToStr(v) ==
    CASE v.k \in {"string", "number", "boolean"} -> v.s
      [] v.k = "undefined" -> "undefined"
      [] v.k = "null"      -> "null"
      [] v.k = "array"     -> JoinFrom(v.e, 1, ",")
      [] OTHER             -> "[object Object]"

\* Array.prototype.join from element i on: null and undefined join as ''
JoinFrom(es, i, sep) ==
    IF i > Len(es) THEN ""
    ELSE (IF Nullish(es[i]) THEN "" ELSE ToStr(es[i]))
         \o (IF i < Len(es) THEN sep ELSE "")
         \o JoinFrom(es, i + 1, sep)

\* a then b, the first exception ending the evaluation
Then(a, b) == IF a.threw THEN a ELSE IF b.threw THEN b ELSE Return(a.val \o b.val)

\* v.length > 0
LengthPositive(v) ==
    CASE v.k = "array"  -> Len(v.e) > 0
      [] v.k = "string" -> v.s # ""
      [] v.k = "object" -> LET l == GetProp(v, "length")
                           IN  l.k = "number" /\ l.s # "0"
      [] OTHER -> FALSE

\* the own enumerable properties of v, as Object.keys and for-in list them
OwnEntries(v) ==
    CASE v.k = "array"  -> [i \in 1..Len(v.e) |-> <<IndexStr(i), v.e[i]>>] \o v.m
      [] v.k = "object" -> v.m
      [] v.k = "string" -> [i \in 1..Len(v.s) |-> <<IndexStr(i), Str("c")>>]
      [] OTHER -> <<>>

\* contactInfo?.field
OptProp(v, key) == IF Nullish(v) THEN Undefined ELSE GetProp(v, key)

\* renderList, line 200
renderList(items) ==
    IF ~Truthy(items) THEN Return(<<>>)
    ELSE IF items.k # "array" THEN Throw(TypeErr)
    ELSE Return(<<"<ul>">>
                \o [i \in 1..Len(items.e) |-> "<li>" \o ToStr(items.e[i]) \o "</li>"]
                \o <<"</ul>">>)

\* renderCategorizedSkills, lines 202-213: the categories from pair i on
RECURSIVE RenderCategories(_, _)
RenderCategories(pairs, i) ==
    IF i > Len(pairs) THEN Return(<<>>)
    ELSE IF pairs[i][2].k # "array" THEN Throw(TypeErr)
    ELSE Then(Return(<<"<h4>" \o pairs[i][1] \o "</h4>",
                       "<p>" \o JoinFrom(pairs[i][2].e, 1, " &bull; ") \o "</p>">>),
              RenderCategories(pairs, i + 1))

renderCategorizedSkills(skillsObject) ==
    IF ~Truthy(skillsObject) \/ Len(OwnEntries(skillsObject)) = 0 THEN Return(<<>>)
    ELSE RenderCategories(OwnEntries(skillsObject), 1)

\* the arrow functions given to .map at lines 270, 281, 291 and 300
RenderEntry(section, x) ==
    IF Nullish(x) THEN Throw(TypeErr)
    ELSE CASE section = "workExperience" ->
                Then(Return(<<"<h3>" \o ToStr(GetProp(x, "title")) \o "</h3>",
                              "<span>" \o ToStr(GetProp(x, "dates")) \o "</span>",
                              "<p>" \o ToStr(GetProp(x, "company")) \o " | "
                                    \o ToStr(GetProp(x, "location")) \o "</p>">>),
                     IF Truthy(GetProp(x, "description"))
                     THEN renderList(GetProp(x, "description")) ELSE Return(<<>>))
           [] section = "projects" ->
                Return(<<"<h3>" \o ToStr(GetProp(x, "name")) \o "</h3>",
                         "<p>" \o ToStr(GetProp(x, "description")) \o " "
                               \o (IF Truthy(GetProp(x, "url"))
                                   THEN "(<a href=" \o ToStr(GetProp(x, "url")) \o ">Link</a>)"
                                   ELSE "") \o "</p>">>)
           [] section = "certifications" ->
                Return(<<"<p><strong>" \o ToStr(GetProp(x, "name")) \o "</strong> - "
                         \o ToStr(GetProp(x, "issuer")) \o " "
                         \o (IF Truthy(GetProp(x, "date"))
                             THEN "(" \o ToStr(GetProp(x, "date")) \o ")" ELSE "")
                         \o "</p>">>)
           [] OTHER ->
                Return(<<"<h3>" \o ToStr(GetProp(x, "institution")) \o "</h3>",
                         "<span>" \o ToStr(GetProp(x, "dates")) \o "</span>",
                         "<p>" \o ToStr(GetProp(x, "degree")) \o "</p>">>)

RECURSIVE RenderEntries(_, _, _)
RenderEntries(section, es, i) ==
    IF i > Len(es) THEN Return(<<>>)
    ELSE Then(RenderEntry(section, es[i]), RenderEntries(section, es, i + 1))

Heading(title) == "<h2>" \o title \o "</h2>"

\* ${v && v.length > 0 ? `<div class="section"><h2>title</h2>${v.map(...)}</div>` : ''}
ListSection_AlwaysShown(section, title, v) ==
    IF Nullish(v) \/ v.k # "array" THEN Return(<<>>)
    ELSE Then(Return(<<Heading(title)>>), RenderEntries(section, v.e, 1))

ListSection(section, title, v) ==
    IF ~(Truthy(v) /\ LengthPositive(v)) THEN Return(<<>>)
    ELSE IF v.k # "array" THEN Throw(TypeErr)
    ELSE Then(Return(<<Heading(title)>>), RenderEntries(section, v.e, 1))

\* line 263
SummarySection(summary) ==
    IF Truthy(summary)
    THEN Return(<<Heading("Summary"), "<p>" \o ToStr(summary) \o "</p>">>)
    ELSE Return(<<>>)

\* line 265
SkillsSection(skills) ==
    IF Truthy(skills) /\ Len(OwnEntries(skills)) > 0
    THEN Then(Return(<<Heading("Skills")>>), renderCategorizedSkills(skills))
    ELSE Return(<<>>)

\* lines 250-260
HeaderBlock(data, photoDataUrl) ==
    LET name == GetProp(data, "name")
        ci   == GetProp(data, "contactInfo")
        Line(field, open, close) ==
            IF Truthy(OptProp(ci, field))
            THEN <<open \o ToStr(OptProp(ci, field)) \o close>> ELSE <<>>
    IN  (IF Truthy(name) THEN <<"<h1>" \o ToStr(name) \o "</h1>">> ELSE <<>>)
        \o Line("location", "<span>", "</span>")
        \o Line("phone", "<span> &bull; ", "</span>")
        \o Line("email", "<span> &bull; <a href=mailto:", "></span>")
        \o Line("linkedin", "<span> &bull; <a href=", ">LinkedIn</a></span>")
        \o Line("github", "<span> &bull; <a href=", ">GitHub</a></span>")
        \o Line("portfolio", "<span> &bull; <a href=", ">Portfolio</a></span>")
        \o <<"<img src=" \o photoDataUrl \o ">">>

generateCvHtml(data, photoDataUrl) ==
    IF Nullish(data) THEN Throw(TypeErr)
    ELSE Then(Return(HeaderBlock(data, photoDataUrl)),
         Then(SummarySection(GetProp(data, "summary")),
         Then(SkillsSection(GetProp(data, "skills")),
         Then(ListSection("workExperience", "Work Experience", GetProp(data, "workExperience")),
         Then(ListSection("projects", "Projects", GetProp(data, "projects")),
         Then(ListSection("certifications", "Certifications", GetProp(data, "certifications")),
              ListSection("education", "Education", GetProp(data, "education"))))))))

\* `data:${photo.mimeType};base64,${photo.data}`, line 178, photo being truthy
PhotoDataUrl(photo) ==
    "data:" \o ToStr(GetProp(photo, "mimeType")) \o ";base64," \o ToStr(GetProp(photo, "data"))

----------------------------------------------------------------------------
(* What the collaborators may return *)

Q(x) == <<QUOTE, x, QUOTE>>
KV(key, valueText) == Q(key) \o <<":">> \o valueText
NL == <<"\n">>
SP == <<" ">>

\* extraction texts: a full record, a record that omits contactInfo (the
\* prompt asks to omit what is missing), an empty contactInfo, a truncated
\* object, an array, null
XFull ==
    <<"{">> \o KV("name", Q("Ann")) \o <<",">>
    \o KV("contactInfo", <<"{">> \o KV("email", Q("gen@x")) \o <<",">>
                          \o KV("location", Q("Remote")) \o <<"}">>) \o <<",">>
    \o KV("skills", <<"[">> \o Q("Python") \o <<",">> \o Q("SQL") \o <<"]">>)
    \o <<"}">>
XNoContact == <<"{">> \o KV("name", Q("Ann")) \o <<"}">>
XEmptyContact == <<"{">> \o NL \o SP \o KV("contactInfo", <<"{", "}">>) \o NL \o <<"}">>
XTruncated == <<"{">> \o KV("name", Q("Ann")) \o <<",">>
XArray == <<"[", "]">>
XNull == <<"null">>

FencedJson(body) == FenceJson \o NL \o body \o NL \o Fence
FencedPlain(body) == Fence \o NL \o body \o NL \o Fence \o NL

ExtractTexts ==
    { FencedJson(XFull), XNoContact, XEmptyContact, FencedPlain(XTruncated),
      XArray, XNull }

\* curation texts: a full record (pretty-printed), one without contactInfo,
\* one that kept the flat skills, one with empty sections, prose before the
\* object, a number, null
KFull ==
    <<"{">> \o NL
    \o SP \o KV("name", SP \o Q("Ann")) \o <<",">> \o NL
    \o SP \o KV("contactInfo", SP \o <<"{">> \o KV("email", Q("gen@x")) \o <<",">>
                               \o KV("linkedin", Q("old-link")) \o <<"}">>) \o <<",">> \o NL
    \o SP \o KV("summary", SP \o Q("Pitch")) \o <<",">> \o NL
    \o SP \o KV("skills", SP \o <<"{">> \o KV("Tech", <<"[">> \o Q("Go") \o <<"]">>) \o <<"}">>)
    \o <<",">> \o NL
    \o SP \o KV("workExperience", SP \o <<"[", "{">> \o KV("title", Q("Dev")) \o <<",">>
                \o KV("description", <<"[">> \o Q("Shipped") \o <<"]">>) \o <<"}", "]">>) \o NL
    \o <<"}">>
KNoContact == <<"{">> \o KV("name", Q("Ann")) \o <<",">> \o KV("summary", Q("Pitch")) \o <<"}">>
KFlatSkills ==
    <<"{">> \o KV("contactInfo", <<"{", "}">>) \o <<",">>
    \o KV("skills", <<"[">> \o Q("Python") \o <<"]">>) \o <<"}">>
KEmptySections ==
    <<"{">> \o KV("contactInfo", <<"{">> \o KV("github", Q("old-hub")) \o <<"}">>) \o <<",">>
    \o KV("summary", Q("")) \o <<",">> \o KV("projects", <<"[", "]">>) \o <<",">>
    \o KV("skills", <<"{", "}">>) \o <<"}">>
KProse == <<"Here", " ", "is", ":", " ">> \o KNoContact
KNumber == <<"42">>
KNull == <<"null">>

CurateTexts ==
    { FencedJson(KFull), KNoContact, FencedPlain(KFlatSkills), KEmptySections,
      KProse, KNumber, KNull }

\* what a rejected await throws: an Error, an Error without message, no Error
Rejections == { Err("fetch failed"), Err(""), NonError }

----------------------------------------------------------------------------
(* Requests *)

OptMember(key, v) == IF v = Undefined THEN <<>> ELSE << <<key, v>> >>

PhotoPayload == Obj(<< <<"mimeType", Str("image/png")>>, <<"data", Str("AAAA")>> >>)

PersonalDetailsSet ==
    { Undefined } \cup
    { Obj(OptMember("email", e) \o OptMember("phone", p) \o OptMember("location", l)) :
        e \in {Undefined, Str(""), Str("me@x")},
        p \in {Undefined, Str("555")},
        l \in {Undefined, Str("Berlin")} }

UrlsSet ==
    { Undefined } \cup
    { Obj(OptMember("linkedinUrl", a) \o OptMember("githubUrl", b) \o OptMember("portfolioUrl", c)) :
        a \in {Undefined, Str("in/ann")},
        b \in {Undefined, Str("gh/ann")},
        c \in {Undefined, Str("ann.dev")} }

\* JSON bodies that are objects
Payloads ==
    { Obj(OptMember("geminiApiKey", key) \o OptMember("geminiModel", mdl)
          \o OptMember("targetJobTitle", title) \o OptMember("profilePhoto", photo)
          \o OptMember("linkedinData", Str("raw profile text"))
          \o OptMember("personalDetails", pd) \o OptMember("urls", urls)) :
        key \in {Undefined, Str("key")},
        mdl \in {Undefined, Str("gemini-pro")},
        title \in {Undefined, Str("Backend Engineer")},
        photo \in {Undefined, PhotoPayload},
        pd \in PersonalDetailsSet,
        urls \in UrlsSet }

CompletePayload ==
    Obj(<< <<"geminiApiKey", Str("key")>>, <<"geminiModel", Str("gemini-pro")>>,
           <<"targetJobTitle", Str("Backend Engineer")>>, <<"profilePhoto", PhotoPayload>>,
           <<"linkedinData", Str("raw profile text")>>,
           <<"personalDetails", Obj(<< <<"email", Str("me@x")>> >>)>>,
           <<"urls", Obj(<< <<"linkedinUrl", Str("in/ann")>> >>)>> >>)

NoHeader == "<null>"
JsonType == "application/json"
ContentTypes == { JsonType, "application/json; charset=utf-8", "text/plain", NoHeader }

Request(method, path, preflight, ctype, parses, body) ==
    [method |-> method, path |-> path, preflight |-> preflight,
     contentType |-> ctype, bodyParses |-> parses, body |-> body]

Requests ==
    \* POST /api/generate declaring application/json, the body a JSON object
    { Request("POST", "/api/generate", FALSE, JsonType, TRUE, b) : b \in Payloads }
    \* ... the body no JSON, or JSON that is no object
    \cup { Request("POST", "/api/generate", FALSE, JsonType, FALSE, Undefined),
           Request("POST", "/api/generate", FALSE, JsonType, TRUE, Null) }
    \* ... declaring another content type, or none
    \cup { Request("POST", "/api/generate", FALSE, ct, ok, CompletePayload) :
             ct \in ContentTypes \ {JsonType}, ok \in BOOLEAN }
    \* other methods and paths
    \cup { Request(m, path, pre, JsonType, TRUE, CompletePayload) :
             m \in {"OPTIONS", "GET"}, path \in {"/api/generate", "/"}, pre \in BOOLEAN }
    \cup { Request("POST", "/", FALSE, JsonType, TRUE, CompletePayload) }

----------------------------------------------------------------------------
(* Responses *)

NoResponse == [status |-> 0, kind |-> "none", error |-> "", cors |-> FALSE]
Response(status, kind, msg, cors) ==
    [status |-> status, kind |-> kind, error |-> msg, cors |-> cors]

\* handleOptions, lines 40-50
handleOptions(request) == Response(200, "empty", "", request.preflight)

\* line 69
MissingRequired(p) ==
    \/ ~Truthy(GetProp(p, "geminiApiKey"))
    \/ ~Truthy(GetProp(p, "geminiModel"))
    \/ ~Truthy(GetProp(p, "targetJobTitle"))
    \/ ~Truthy(GetProp(p, "profilePhoto"))

\* lines 98-101
CatchResponse_BareMessage(e) ==
    Response(500, "json", IF e.isError THEN e.message ELSE "", TRUE)

CatchResponse(e) ==
    Response(500, "json",
             "Backend Error: " \o (IF e.isError THEN e.message ELSE "An unknown error occurred."),
             TRUE)

----------------------------------------------------------------------------
(* The handler, fetch, lines 53-106: one action per step between awaits *)

NoFence == [style |-> "none", lead |-> 0, inner |-> 0, tail |-> 0]

Init ==
    /\ req \in Requests
    /\ pc = "route"
    /\ payload = Undefined
    /\ extractText = <<>> /\ extractedRaw = Undefined /\ extractedJson = Undefined
    /\ curateText = <<>> /\ curatedRaw = Undefined /\ curatedJson = Undefined
    /\ html = <<>>
    /\ browser = "null"
    /\ pdfBuffer = "none"
    /\ error = NoError
    /\ failedAt = "none"
    /\ response = NoResponse
    /\ genCalls = 0 /\ launchCalls = 0 /\ closeCalls = 0
    /\ trace = <<>>
    /\ unwrapped = <<>> /\ fence = NoFence

Step(name) == trace' = Append(trace, name)

\* an exception leaves the try block for the catch clause of line 98
Raise(e, where) == error' = e /\ failedAt' = where /\ pc' = "catch"

\* lines 54-63 and 105
Route ==
    /\ pc = "route"
    /\ IF req.method = "OPTIONS"
       THEN response' = handleOptions(req) /\ pc' = "done"
       ELSE IF req.method = "POST" /\ req.path = "/api/generate"
       THEN IF req.contentType # JsonType
            THEN /\ response' = Response(415, "json", "Expected application/json", TRUE)
                 /\ pc' = "done"
            ELSE pc' = "json" /\ UNCHANGED response
       ELSE response' = Response(404, "text", "Not Found", FALSE) /\ pc' = "done"
    /\ Step("route")
    /\ UNCHANGED << req, payload, extractText, extractedRaw, extractedJson, curateText,
                    curatedRaw, curatedJson, html, browser, pdfBuffer, error, failedAt,
                    genCalls, launchCalls, closeCalls, unwrapped, fence >>

\* lines 65-71: request.json() resolves or rejects, the destructuring, the check
ReadBody ==
    /\ pc = "json"
    /\ IF ~req.bodyParses
       THEN Raise(SyntaxErr, "json") /\ UNCHANGED << payload, response >>
       ELSE /\ payload' = req.body
            /\ IF Nullish(req.body) \/ Nullish(GetProp(req.body, "urls"))
               THEN Raise(TypeErr, "destructure") /\ UNCHANGED response
               ELSE IF MissingRequired(req.body)
               THEN /\ response' = Response(400, "json", "Missing required payload fields.", TRUE)
                    /\ pc' = "done"
                    /\ UNCHANGED << error, failedAt >>
               ELSE pc' = "extractCall" /\ UNCHANGED << error, failedAt, response >>
    /\ Step("json")
    /\ UNCHANGED << req, extractText, extractedRaw, extractedJson, curateText,
                    curatedRaw, curatedJson, html, browser, pdfBuffer,
                    genCalls, launchCalls, closeCalls, unwrapped, fence >>

\* lines 73-76 and 112-134: extractData builds its prompt and calls the collaborator
ExtractCall ==
    /\ pc = "extractCall"
    /\ genCalls' = genCalls + 1
    /\ pc' = "extract"
    /\ Step("extractCall")
    /\ UNCHANGED << req, payload, extractText, extractedRaw, extractedJson, curateText,
                    curatedRaw, curatedJson, html, browser, pdfBuffer, error, failedAt,
                    response, launchCalls, closeCalls, unwrapped, fence >>

\* an extractData that calls the collaborator again after a rejected call
ExtractRejected_Retry ==
    /\ pc = "extract"
    /\ pc' = "extractCall"
    /\ Step("extractRejected")
    /\ UNCHANGED << req, payload, extractText, extractedRaw, extractedJson, curateText,
                    curatedRaw, curatedJson, html, browser, pdfBuffer, error, failedAt,
                    response, genCalls, launchCalls, closeCalls, unwrapped, fence >>

\* lines 134-135: generateContent or result.response rejects
ExtractRejected ==
    /\ pc = "extract"
    /\ \E e \in Rejections : Raise(e, "extractCall")
    /\ Step("extractRejected")
    /\ UNCHANGED << req, payload, extractText, extractedRaw, extractedJson, curateText,
                    curatedRaw, curatedJson, html, browser, pdfBuffer,
                    response, genCalls, launchCalls, closeCalls, unwrapped, fence >>

\* lines 135-137: the collaborator returned text
ExtractReturn(text) ==
    /\ pc = "extract"
    /\ extractText' = text
    /\ LET r == extractData(text)
       IN  IF r.threw
           THEN /\ Raise(r.err, "extractParse")
                /\ Step("extractFailed")
                /\ UNCHANGED << extractedRaw, extractedJson >>
           ELSE /\ extractedRaw' = r.val
                /\ extractedJson' = r.val
                /\ pc' = "merge"
                /\ Step("extracted")
                /\ UNCHANGED << error, failedAt >>
    /\ UNCHANGED << req, payload, curateText, curatedRaw, curatedJson, html, browser,
                    pdfBuffer, response, genCalls, launchCalls, closeCalls,
                    unwrapped, fence >>

ExtractReturned == \E text \in ExtractTexts : ExtractReturn(text)

\* lines 78-80
Merge ==
    /\ pc = "merge"
    /\ LET r == MergeStep(extractedJson, GetProp(payload, "personalDetails"))
       IN  IF r.threw
           THEN /\ Raise(r.err, "merge")
                /\ Step("mergeFailed")
                /\ UNCHANGED extractedJson
           ELSE /\ extractedJson' = r.val
                /\ pc' = "curateCall"
                /\ Step("merged")
                /\ UNCHANGED << error, failedAt >>
    /\ UNCHANGED << req, payload, extractText, extractedRaw, curateText, curatedRaw,
                    curatedJson, html, browser, pdfBuffer, response, genCalls,
                    launchCalls, closeCalls, unwrapped, fence >>

\* lines 82 and 142-170: curateData builds its prompt and calls the collaborator
CurateCall ==
    /\ pc = "curateCall"
    /\ genCalls' = genCalls + 1
    /\ pc' = "curate"
    /\ Step("curateCall")
    /\ UNCHANGED << req, payload, extractText, extractedRaw, extractedJson, curateText,
                    curatedRaw, curatedJson, html, browser, pdfBuffer, error, failedAt,
                    response, launchCalls, closeCalls, unwrapped, fence >>

\* lines 170-171
CurateRejected ==
    /\ pc = "curate"
    /\ \E e \in Rejections : Raise(e, "curateCall")
    /\ Step("curateRejected")
    /\ UNCHANGED << req, payload, extractText, extractedRaw, extractedJson, curateText,
                    curatedRaw, curatedJson, html, browser, pdfBuffer,
                    response, genCalls, launchCalls, closeCalls, unwrapped, fence >>

\* lines 171-173
CurateReturn(text) ==
    /\ pc = "curate"
    /\ curateText' = text
    /\ LET r == curateData(text)
       IN  IF r.threw
           THEN /\ Raise(r.err, "curateParse")
                /\ Step("curateFailed")
                /\ UNCHANGED << curatedRaw, curatedJson >>
           ELSE /\ curatedRaw' = r.val
                /\ curatedJson' = r.val
                /\ pc' = "overlay"
                /\ Step("curated")
                /\ UNCHANGED << error, failedAt >>
    /\ UNCHANGED << req, payload, extractText, extractedRaw, extractedJson, html, browser,
                    pdfBuffer, response, genCalls, launchCalls, closeCalls,
                    unwrapped, fence >>

CurateReturned == \E text \in CurateTexts : CurateReturn(text)

\* lines 84-88
Overlay ==
    /\ pc = "overlay"
    /\ LET r == ContactOverlay(curatedJson, GetProp(payload, "urls"))
       IN  IF r.threw
           THEN /\ Raise(r.err, "overlay")
                /\ Step("overlayFailed")
                /\ UNCHANGED curatedJson
           ELSE /\ curatedJson' = r.val
                /\ pc' = "assemble"
                /\ Step("overlaid")
                /\ UNCHANGED << error, failedAt >>
    /\ UNCHANGED << req, payload, extractText, extractedRaw, extractedJson, curateText,
                    curatedRaw, html, browser, pdfBuffer, response, genCalls,
                    launchCalls, closeCalls, unwrapped, fence >>

----------------------------------------------------------------------------
(* generatePdf, lines 177-195 *)

\* lines 178-181: the document is assembled before the try block
Assemble ==
    /\ pc = "assemble"
    /\ LET r == generateCvHtml(curatedJson, PhotoDataUrl(GetProp(payload, "profilePhoto")))
       IN  IF r.threw
           THEN /\ Raise(r.err, "assemble")
                /\ Step("assembleFailed")
                /\ UNCHANGED html
           ELSE /\ html' = r.val
                /\ pc' = "launch"
                /\ Step("assembled")
                /\ UNCHANGED << error, failedAt >>
    /\ UNCHANGED << req, payload, extractText, extractedRaw, extractedJson, curateText,
                    curatedRaw, curatedJson, browser, pdfBuffer, response, genCalls,
                    launchCalls, closeCalls, unwrapped, fence >>

\* an awaited renderer call inside the try block rejects: on to the finally block
Rejected(where) ==
    \E e \in Rejections : error' = e /\ failedAt' = where /\ pc' = "finally"

\* line 183
Launch ==
    /\ pc = "launch"
    /\ launchCalls' = launchCalls + 1
    /\ \/ browser' = "open" /\ pc' = "newPage" /\ UNCHANGED << error, failedAt >>
       \/ Rejected("launch") /\ UNCHANGED browser
    /\ Step("launch")
    /\ UNCHANGED << req, payload, extractText, extractedRaw, extractedJson, curateText,
                    curatedRaw, curatedJson, html, pdfBuffer, response, genCalls,
                    closeCalls, unwrapped, fence >>

\* line 184
NewPage ==
    /\ pc = "newPage"
    /\ \/ pc' = "setContent" /\ UNCHANGED << error, failedAt >>
       \/ Rejected("newPage")
    /\ Step("newPage")
    /\ UNCHANGED << req, payload, extractText, extractedRaw, extractedJson, curateText,
                    curatedRaw, curatedJson, html, browser, pdfBuffer, response, genCalls,
                    launchCalls, closeCalls, unwrapped, fence >>

\* line 185
SetContent ==
    /\ pc = "setContent"
    /\ \/ pc' = "pdf" /\ UNCHANGED << error, failedAt >>
       \/ Rejected("setContent")
    /\ Step("setContent")
    /\ UNCHANGED << req, payload, extractText, extractedRaw, extractedJson, curateText,
                    curatedRaw, curatedJson, html, browser, pdfBuffer, response, genCalls,
                    launchCalls, closeCalls, unwrapped, fence >>

\* lines 186-191
PrintPdf ==
    /\ pc = "pdf"
    /\ \/ pdfBuffer' = "pdf bytes" /\ pc' = "finally" /\ UNCHANGED << error, failedAt >>
       \/ Rejected("pdf") /\ UNCHANGED pdfBuffer
    /\ Step("pdf")
    /\ UNCHANGED << req, payload, extractText, extractedRaw, extractedJson, curateText,
                    curatedRaw, curatedJson, html, browser, response, genCalls,
                    launchCalls, closeCalls, unwrapped, fence >>

\* a generatePdf that closes the browser only after a successful page.pdf
Finally_CloseOnSuccess ==
    /\ pc = "finally"
    /\ IF browser = "open" /\ failedAt = "none"
       THEN /\ closeCalls' = closeCalls + 1
            /\ browser' = "closed"
            /\ \/ pc' = "respond" /\ UNCHANGED << error, failedAt >>
               \/ \E e \in Rejections : Raise(e, "close")
            /\ Step("close")
       ELSE /\ pc' = IF failedAt = "none" THEN "respond" ELSE "catch"
            /\ Step("noClose")
            /\ UNCHANGED << closeCalls, browser, error, failedAt >>
    /\ UNCHANGED << req, payload, extractText, extractedRaw, extractedJson, curateText,
                    curatedRaw, curatedJson, html, pdfBuffer, response, genCalls,
                    launchCalls, unwrapped, fence >>

\* lines 192-194: if (browser) await browser.close(); then the pending return
\* or exception goes on, unless close itself rejects
Finally ==
    /\ pc = "finally"
    /\ IF browser = "open"
       THEN /\ closeCalls' = closeCalls + 1
            /\ browser' = "closed"
            /\ \/ /\ pc' = IF failedAt = "none" THEN "respond" ELSE "catch"
                  /\ UNCHANGED << error, failedAt >>
               \/ \E e \in Rejections : Raise(e, "close")
            /\ Step("close")
       ELSE /\ pc' = IF failedAt = "none" THEN "respond" ELSE "catch"
            /\ Step("noClose")
            /\ UNCHANGED << closeCalls, browser, error, failedAt >>
    /\ UNCHANGED << req, payload, extractText, extractedRaw, extractedJson, curateText,
                    curatedRaw, curatedJson, html, pdfBuffer, response, genCalls,
                    launchCalls, unwrapped, fence >>

\* lines 92-96
Respond ==
    /\ pc = "respond"
    /\ response' = Response(200, "pdf", "", TRUE)
    /\ pc' = "done"
    /\ Step("respond")
    /\ UNCHANGED << req, payload, extractText, extractedRaw, extractedJson, curateText,
                    curatedRaw, curatedJson, html, browser, pdfBuffer, error, failedAt,
                    genCalls, launchCalls, closeCalls, unwrapped, fence >>

\* lines 98-102
Catch ==
    /\ pc = "catch"
    /\ response' = CatchResponse(error)
    /\ pc' = "done"
    /\ Step("catch")
    /\ UNCHANGED << req, payload, extractText, extractedRaw, extractedJson, curateText,
                    curatedRaw, curatedJson, html, browser, pdfBuffer, error, failedAt,
                    genCalls, launchCalls, closeCalls, unwrapped, fence >>

Next ==
    \/ Route
    \/ ReadBody
    \/ ExtractCall
    \/ ExtractRejected
    \/ ExtractReturned
    \/ Merge
    \/ CurateCall
    \/ CurateRejected
    \/ CurateReturned
    \/ Overlay
    \/ Assemble
    \/ Launch
    \/ NewPage
    \/ SetContent
    \/ PrintPdf
    \/ Finally
    \/ Respond
    \/ Catch

Spec == Init /\ [][Next]_vars

----------------------------------------------------------------------------
(* One stage on its own: the collaborator returns a JSON text, bare or in a *)
(* fence with whitespace around it                                          *)

Pad(n) == [i \in 1..n |-> IF i % 2 = 1 THEN "\n" ELSE " "]

Wrap(f, j) ==
    CASE f.style = "json"  ->
            Pad(f.lead) \o FenceJson \o Pad(f.inner) \o j \o Pad(f.inner) \o Fence \o Pad(f.tail)
      [] f.style = "plain" ->
            Pad(f.lead) \o Fence \o Pad(f.inner) \o j \o Pad(f.inner) \o Fence \o Pad(f.tail)
      [] OTHER -> j

Fences ==
    { NoFence } \cup
    [style : {"json", "plain"}, lead : 0..MaxPad, inner : 0..MaxPad, tail : 0..MaxPad]

\* object texts with fence characters, the word json and escapes inside strings
JTicks == <<"{">> \o KV("summary", <<QUOTE, "use", " ", BQ, BQ, BQ, "code", BQ, BQ, BQ, QUOTE>>) \o <<"}">>
JTicksJson == <<"{">> \o KV("note", <<QUOTE, BQ, BQ, BQ, "json", QUOTE>>) \o <<",">>
              \o KV("json", <<QUOTE, BQ, BQ, BQ, BQ, QUOTE>>) \o <<"}">>
JEscaped == <<"{">> \o KV("q", <<QUOTE, "say", " ", BACKSLASH, QUOTE, "hi", BACKSLASH, QUOTE, QUOTE>>) \o <<"}">>
JNested ==
    <<"{">> \o KV("a", <<"{">> \o KV("b", <<"[", "{">> \o KV("c", <<"null">>) \o <<"}", ",", "true", ",", "42", "]">>)
                       \o <<"}">>) \o <<"}">>

StageBodies ==
    { XFull, XNoContact, XEmptyContact, KFull, KNoContact, KFlatSkills, KEmptySections,
      JTicks, JTicksJson, JEscaped, JNested, XArray, XTruncated, KProse }

InitStage ==
    /\ req = Request("POST", "/api/generate", FALSE, JsonType, TRUE, CompletePayload)
    /\ payload = CompletePayload
    /\ pc \in {"extract", "curate"}
    /\ unwrapped \in StageBodies
    /\ fence \in Fences
    /\ extractText = <<>> /\ extractedRaw = Undefined /\ extractedJson = Undefined
    /\ curateText = <<>> /\ curatedRaw = Undefined /\ curatedJson = Undefined
    /\ html = <<>>
    /\ browser = "null"
    /\ pdfBuffer = "none"
    /\ error = NoError
    /\ failedAt = "none"
    /\ response = NoResponse
    /\ genCalls = 1 /\ launchCalls = 0 /\ closeCalls = 0
    /\ trace = <<>>

StageExtract == ExtractReturn(Wrap(fence, unwrapped))
StageCurate == CurateReturn(Wrap(fence, unwrapped))

NextStage == StageExtract \/ StageCurate

SpecStage == InitStage /\ [][NextStage]_vars

----------------------------------------------------------------------------
(* Document assembly on its own: the final record drawn from the schema's   *)
(* shapes, each section absent, empty or filled                             *)

SectionEntry(section) ==
    CASE section = "workExperience" ->
            Obj(<< <<"title", Str("Dev")>>, <<"company", Str("Acme")>>,
                   <<"location", Str("Berlin")>>, <<"dates", Str("2020")>>,
                   <<"description", Arr(<<Str("Shipped")>>)>> >>)
      [] section = "projects" ->
            Obj(<< <<"name", Str("Tool")>>, <<"description", Str("Built")>> >>)
      [] section = "certifications" ->
            Obj(<< <<"name", Str("Cert")>>, <<"issuer", Str("Org")>> >>)
      [] OTHER ->
            Obj(<< <<"institution", Str("Uni")>>, <<"degree", Str("BSc")>>,
                   <<"dates", Str("2019")>> >>)

SectionValues(section) ==
    { Undefined } \cup { Arr([i \in 1..n |-> SectionEntry(section)]) : n \in 0..MaxItems }

SummaryValues == { Undefined, Null, Str(""), Str("Pitch") }

\* the curated mapping of categories, and the flat sequence extraction produces
SkillsValues ==
    { Undefined, Arr(<<>>), Arr(<<Str("Python")>>) } \cup
    { Obj([i \in 1..n |-> <<"Category" \o IndexStr(i), Arr(<<Str("Go")>>)>>]) : n \in 0..MaxItems }

FinalRecords ==
    { Obj(<< <<"name", Str("Ann")>> >>
          \o OptMember("summary", su) \o OptMember("skills", sk)
          \o OptMember("workExperience", we) \o OptMember("projects", pr)
          \o OptMember("certifications", ce) \o OptMember("education", ed)) :
        su \in SummaryValues, sk \in SkillsValues,
        we \in SectionValues("workExperience"), pr \in SectionValues("projects"),
        ce \in SectionValues("certifications"), ed \in SectionValues("education") }

InitHtml ==
    /\ req = Request("POST", "/api/generate", FALSE, JsonType, TRUE, CompletePayload)
    /\ payload = CompletePayload
    /\ pc = "assemble"
    /\ curatedJson \in FinalRecords
    /\ curatedRaw = curatedJson
    /\ extractText = <<>> /\ extractedRaw = Undefined /\ extractedJson = Undefined
    /\ curateText = <<>>
    /\ html = <<>>
    /\ browser = "null"
    /\ pdfBuffer = "none"
    /\ error = NoError
    /\ failedAt = "none"
    /\ response = NoResponse
    /\ genCalls = 2 /\ launchCalls = 0 /\ closeCalls = 0
    /\ trace = <<>>
    /\ unwrapped = <<>> /\ fence = NoFence

NextHtml == Assemble

SpecHtml == InitHtml /\ [][NextHtml]_vars

----------------------------------------------------------------------------
(* Properties *)

Happened(step) == \E i \in 1..Len(trace) : trace[i] = step
Range(f) == { f[i] : i \in 1..Len(f) }

PersonalDetails == GetProp(payload, "personalDetails")
Urls == GetProp(payload, "urls")
ContactOf(record) == GetProp(record, "contactInfo")

\* a POST /api/generate that declares application/json and carries a JSON object
JsonObjectPost ==
    /\ req.method = "POST" /\ req.path = "/api/generate"
    /\ req.contentType = JsonType
    /\ req.bodyParses /\ req.body.k = "object"

\* C1 (Merge authority): the record handed to curateData carries, for each of
\* email, phone and location the user supplied non-empty, the user's value in
\* contactInfo, whatever extractData returned for that field.
C1_MergeAuthority ==
    pc \in {"curateCall", "curate"} =>
        \A f \in {"email", "phone", "location"} :
            Truthy(OptProp(PersonalDetails, f)) =>
                GetProp(ContactOf(extractedJson), f) = GetProp(PersonalDetails, f)

\* the user's "Berlin" replaced the extracted "Remote" in the record curateData got
C1_Witness ==
    /\ pc = "curate"
    /\ GetProp(PersonalDetails, "location") = Str("Berlin")
    /\ GetProp(ContactOf(extractedRaw), "location") = Str("Remote")
    /\ GetProp(ContactOf(extractedJson), "location") = Str("Berlin")

\* C2 (Overlay authority), as claimed: the record handed to generatePdf carries,
\* for each link the user supplied non-empty, the user's value in contactInfo,
\* also when the record curateData returned has no contactInfo.
C2_OverlayAuthority ==
    (pc = "assemble" /\ extractedRaw.k = "object" /\ curatedRaw.k = "object") =>
        /\ Truthy(GetProp(Urls, "linkedinUrl")) =>
              GetProp(ContactOf(curatedJson), "linkedin") = GetProp(Urls, "linkedinUrl")
        /\ Truthy(GetProp(Urls, "githubUrl")) =>
              GetProp(ContactOf(curatedJson), "github") = GetProp(Urls, "githubUrl")
        /\ Truthy(GetProp(Urls, "portfolioUrl")) =>
              GetProp(ContactOf(curatedJson), "portfolio") = GetProp(Urls, "portfolioUrl")

\* C3 (Required-field validation), as claimed: a JSON-typed POST /api/generate
\* whose body lacks the credential, the model identifier, the job title or the
\* photo calls no collaborator and ends in the 400 response with an error body,
\* whichever other fields the body has.
C3_RequiredFieldValidation ==
    (/\ JsonObjectPost
     /\ \E f \in {"geminiApiKey", "geminiModel", "targetJobTitle", "profilePhoto"} :
            GetProp(req.body, f) = Undefined) =>
        /\ genCalls = 0 /\ launchCalls = 0
        /\ pc = "done" => (response.status = 400 /\ response.kind = "json" /\ response.error # "")

\* C4 (Malformed-output rejection): once a stage's collaborator text does not
\* parse after the cleanup, no later stage has run or will: no curation call
\* after an extraction failure, no overlay, assembly or renderer call after
\* either, and the request ends in the 500 response.
C4_MalformedOutputRejection ==
    /\ (extractText # <<>> /\ ~JSONparse(StripFences(extractText)).ok) =>
          /\ pc \in {"catch", "done"}
          /\ genCalls = 1 /\ launchCalls = 0
          /\ curateText = <<>> /\ curatedJson = Undefined /\ html = <<>>
          /\ \A st \in {"merged", "mergeFailed", "curateCall", "overlaid", "assembled", "launch"} :
                ~Happened(st)
          /\ pc = "done" => response.status = 500
    /\ (curateText # <<>> /\ ~JSONparse(StripFences(curateText)).ok) =>
          /\ pc \in {"catch", "done"}
          /\ launchCalls = 0 /\ html = <<>>
          /\ \A st \in {"overlaid", "overlayFailed", "assembled", "launch"} : ~Happened(st)
          /\ pc = "done" => response.status = 500

\* prose before the object in the curation text: the request ended in 500 with
\* the renderer never launched
C4_Witness ==
    /\ pc = "done"
    /\ curateText = KProse
    /\ response.status = 500
    /\ launchCalls = 0

\* C5 (Single-object requirement), as claimed: what a stage returns is a JSON
\* object; text that parses as an array, a string, a number, a boolean or null
\* makes the stage fail.
C5_SingleObjectRequirement ==
    /\ extractedRaw # Undefined => extractedRaw.k = "object"
    /\ curatedRaw # Undefined => curatedRaw.k = "object"

\* C6 (Renderer session release): once generatePdf is left, by return or by
\* exception, a browser that was launched has had close called on it; it is
\* open only between launch and the finally block.
C6_SessionReleased ==
    /\ (pc \in {"respond", "catch", "done"} /\ Happened("launch") /\ failedAt # "launch") =>
          (browser = "closed" /\ closeCalls = 1)
    /\ response # NoResponse => browser # "open"
    /\ browser = "open" => pc \in {"newPage", "setContent", "pdf", "finally"}

\* setContent failed after the launch, and the browser was closed before the 500
C6_Witness ==
    /\ pc = "done"
    /\ failedAt = "setContent"
    /\ browser = "closed" /\ closeCalls = 1
    /\ response.status = 500

\* C7 (No partial success): the PDF response is given only after extraction,
\* curation and rendering all succeeded; a request in which any step threw ends
\* in the 500 response, whose body is an error object with a non-empty message.
C7_NoPartialSuccess ==
    /\ response.kind = "pdf" =>
          /\ response.status = 200
          /\ Happened("extracted") /\ Happened("merged") /\ Happened("curated")
          /\ Happened("overlaid") /\ Happened("assembled")
          /\ pdfBuffer = "pdf bytes" /\ browser = "closed"
          /\ failedAt = "none"
    /\ (pc = "done" /\ failedAt # "none") =>
          (response.status = 500 /\ response.kind = "json" /\ response.error # "")
    /\ (pc = "done" /\ failedAt = "none" /\ genCalls > 0) => response.kind = "pdf"

\* browser.close rejected with an Error that has no message, after page.pdf
\* succeeded: the response is the 500 with a message all the same
C7_Witness ==
    /\ pc = "done"
    /\ failedAt = "close"
    /\ pdfBuffer = "pdf bytes"
    /\ error = Err("")
    /\ response.status = 500 /\ response.error # ""

\* a JSON object text: it parses as it stands, to an object
WellFormedObject(j) == JSONparse(j).ok /\ JSONparse(j).val.k = "object"

\* C8 (Fence-wrapping round-trip): for a well-formed JSON object text, the stage
\* given the text inside a fence (```json or ```, with whitespace around) ends as
\* the stage given the bare text does, with the same record.
C8_FenceRoundTrip ==
    WellFormedObject(unwrapped) =>
        /\ extractText # <<>> =>
              /\ extractText = Wrap(fence, unwrapped)
              /\ (pc = "merge") = ~extractData(unwrapped).threw
              /\ pc = "merge" => extractedRaw = extractData(unwrapped).val
        /\ curateText # <<>> =>
              /\ curateText = Wrap(fence, unwrapped)
              /\ (pc = "overlay") = ~curateData(unwrapped).threw
              /\ pc = "overlay" => curatedRaw = curateData(unwrapped).val

\* the pretty-printed record inside ```json ... ``` with padding gave the record
\* of the bare text
C8_Witness ==
    /\ pc = "merge"
    /\ unwrapped = KFull
    /\ fence = [style |-> "json", lead |-> 1, inner |-> 1, tail |-> 1]
    /\ extractedRaw = JSONparse(KFull).val

Sections ==
    { <<"summary", "Summary">>, <<"skills", "Skills">>,
      <<"workExperience", "Work Experience">>, <<"projects", "Projects">>,
      <<"certifications", "Certifications">>, <<"education", "Education">> }

\* present and non-empty: a non-empty string, a sequence with an entry, a
\* mapping with a category
NonEmptyField(v) ==
    \/ v.k = "string" /\ v.s # ""
    \/ v.k = "array" /\ Len(v.e) >= 1
    \/ v.k = "object" /\ Len(v.m) >= 1

\* C9 (Presence-implies-render): in the document generateCvHtml produced, each
\* section's heading is there exactly if the final record's field for it is
\* present and non-empty.
C9_PresenceImpliesRender ==
    pc = "launch" =>
        \A sec \in Sections :
            (Heading(sec[2]) \in Range(html)) = NonEmptyField(GetProp(curatedJson, sec[1]))

\* a summary that is rendered, next to an empty projects sequence and an absent
\* certifications field that are not
C9_Witness ==
    /\ pc = "launch"
    /\ GetProp(curatedJson, "summary") = Str("Pitch")
    /\ GetProp(curatedJson, "projects") = Arr(<<>>)
    /\ GetProp(curatedJson, "certifications") = Undefined
    /\ Len(GetProp(curatedJson, "education").e) = MaxItems
    /\ Heading("Summary") \in Range(html)
    /\ Heading("Education") \in Range(html)
    /\ Heading("Projects") \notin Range(html)
    /\ Heading("Certifications") \notin Range(html)

\* C10 (Merge is total), as claimed: the merge lines raise no error, whatever
\* record (a JSON object, with or without contactInfo) extractData returned and
\* whichever of the three overrides the request's personalDetails carries.
C10_MergeTotal ==
    (extractedRaw.k = "object" /\ PersonalDetails.k = "object") => failedAt # "merge"

\* a Content-Type that declares JSON: the media type application/json, with or
\* without parameters
IsJsonContentType(ct) == ct \in {JsonType, "application/json; charset=utf-8"}

\* C11 (Content negotiation), as claimed: a POST /api/generate is answered 415 at
\* the content-type check, with the body unread and no collaborator called,
\* exactly if its declared Content-Type is no JSON content type; application/json
\* with a charset parameter passes the check.
C11_ContentNegotiation ==
    (req.method = "POST" /\ req.path = "/api/generate" /\ pc # "route") =>
        /\ (response.status = 415) = ~IsJsonContentType(req.contentType)
        /\ response.status = 415 =>
              (payload = Undefined /\ genCalls = 0 /\ launchCalls = 0 /\ trace = <<"route">>)

\* the steps of the pipeline in the order fetch takes them, each with the step
\* that ends it in failure
StageOrder ==
    << "extractCall", "extracted", "merged", "curateCall", "curated", "overlaid",
       "assembled", "launch" >>
StageFailures ==
    { "extractRejected", "extractFailed", "mergeFailed", "curateRejected", "curateFailed",
      "overlayFailed", "assembleFailed" }

Count(step) == Cardinality({ i \in 1..Len(trace) : trace[i] = step })
Position(step) == CHOOSE i \in 1..Len(trace) : trace[i] = step

\* C12 (Strict stage order and call counts): within a request each of extraction
\* call, merge, curation call, contact overlay, document assembly and renderer
\* launch happens at most once, only after the step before it completed, and
\* never after a step failed; the text-generation collaborator is called at most
\* twice, once by extraction and once by curation, and the renderer is launched
\* at most once.
C12_StageOrderAndCallCounts ==
    /\ \A k \in 1..Len(StageOrder) :
          /\ Count(StageOrder[k]) <= 1
          /\ (k > 1 /\ Happened(StageOrder[k])) =>
                /\ Happened(StageOrder[k - 1])
                /\ Position(StageOrder[k - 1]) < Position(StageOrder[k])
    /\ \A i \in 1..Len(trace) :
          trace[i] \in StageFailures => (i = Len(trace) \/ (i + 1 = Len(trace) /\ trace[i + 1] = "catch"))
    /\ genCalls = Count("extractCall") + Count("curateCall")
    /\ genCalls <= 2
    /\ launchCalls = Count("launch")
    /\ launchCalls <= 1

\* a request that went through the whole pipeline: two collaborator calls, one
\* launch, every step once and in order
C12_Witness ==
    /\ pc = "done"
    /\ response.kind = "pdf"
    /\ genCalls = 2 /\ launchCalls = 1
    /\ trace = << "route", "json", "extractCall", "extracted", "merged", "curateCall",
                  "curated", "overlaid", "assembled", "launch", "newPage", "setContent",
                  "pdf", "close", "respond" >>

====
